---- MODULE Spec2Model ----
(***************************************************************************)
(* powermon: the availability-monitoring and outage-detection engine.      *)
(*                                                                         *)
(* State: the three database tables (smart_switches, power_checks,         *)
(* power_outages), the wall clock, the Celery broker queue and the state   *)
(* of each Celery worker process running monitor_all_switches.             *)
(* Operations: the beat schedule, the monitoring cycle                     *)
(* (SwitchMonitor.check_all_switches, step by step, each step ending in a  *)
(* database commit), the web routes that probe, toggle and delete a        *)
(* switch.                                                                 *)
(***************************************************************************)
EXTENDS Integers, Sequences, FiniteSets, TLC

\* ------------------------------------------------------------------ bounds
\* Registered switches (ids 1..NumSwitches).
NumSwitches == 2
\* Worker processes of the Celery pool (celery's default is one per core).
NumWorkers == 2
\* The clock runs from 0 to MaxTime ticks.
MaxTime == 2
\* Clock ticks per second (datetime has sub-second resolution).
TicksPerSecond == 3
\* Ids the sequence of power_checks hands out.
MaxChecks == 3
\* Task messages the beat leaves waiting in the broker.
MaxQueue == 1
\* On-demand probes (check_switch_now, test_switch).
MaxOnDemand == 1
\* Toggles and deletions of switches.
MaxAdmin == 1

\* ------------------------------------------------------- program constants
\* self.retry(exc=exc, countdown=60, max_retries=3)
max_retries == 3

\* int(os.getenv("POWER_OUTAGE_THRESHOLD", 2))
DefaultOutageThreshold == 2

\* A NULL column / Python None, for integer-valued columns.
NULL == 0 - 1
\* A NULL error_message.
NoMessage == "None"

SwitchIds == 1..NumSwitches
Workers == 1..NumWorkers

VARIABLES
    smart_switches,   \* [SwitchIds -> "active" | "inactive" | "deleted"]
    power_checks,     \* set of PowerCheck rows
    check_seq,        \* last id handed out by power_checks' id sequence
    power_outages,    \* set of PowerOutage rows
    now,              \* datetime.utcnow(), in ticks
    queue,            \* broker: waiting monitor_all_switches messages (their retries)
    ondemand,         \* on-demand probes made so far
    admin,            \* toggles and deletions made so far
    concurrency,      \* size of the worker pool
    pings,            \* the outcomes the network gives a ping in this run
    db_faults,        \* whether the database refuses commits in this run
    outage_threshold, \* SwitchMonitor.outage_threshold, from POWER_OUTAGE_THRESHOLD
    response,         \* what the last status page or maintenance command returned
    task,             \* [Workers -> the run of monitor_all_switches on that worker]
    returned          \* [Workers -> what the worker's last run returned]

vars == <<smart_switches, power_checks, check_seq, power_outages, now, queue,
          ondemand, admin, concurrency, pings, db_faults, outage_threshold, response, task, returned>>

\* ------------------------------------------------------------ pure helpers
\* [f(x) for x in s if p(x)] for the two comprehensions of the code.
RECURSIVE OfflineOf(_)
OfflineOf(check_results) ==
    IF check_results = <<>> THEN <<>>
    ELSE IF ~Head(check_results).is_online
         THEN <<Head(check_results)>> \o OfflineOf(Tail(check_results))
         ELSE OfflineOf(Tail(check_results))

\* sorted ids of the active switches: SmartSwitch.query.filter_by(is_active=True).all()
RECURSIVE ActiveFrom(_, _)
ActiveFrom(sw, i) ==
    IF i > NumSwitches THEN <<>>
    ELSE IF sw[i] = "active" THEN <<i>> \o ActiveFrom(sw, i + 1)
         ELSE ActiveFrom(sw, i + 1)

\* A slip: the query without its filter, SmartSwitch.query.all().
RECURSIVE PresentFrom(_, _)
PresentFrom(sw, i) ==
    IF i > NumSwitches THEN <<>>
    ELSE IF sw[i] # "deleted" THEN <<i>> \o PresentFrom(sw, i + 1)
         ELSE PresentFrom(sw, i + 1)

AllSwitches(sw) == PresentFrom(sw, 1)

ActiveSwitches(sw) == ActiveFrom(sw, 1)

\* ------------------------------------------------------------------ probe
\* What subprocess.run(ping) can do.
PingOutcomes == {"rc0", "rc1", "TimeoutExpired", "Exception"}

\* A slip: the handler of TimeoutExpired returning True for is_online.
check_switch_status_timeout_online(ping) ==
    CASE ping = "rc0" ->
            [is_online |-> TRUE, response_time |-> 1, error_message |-> NoMessage]
      [] ping = "rc1" ->
            [is_online |-> FALSE, response_time |-> NULL,
             error_message |-> "Ping failed - device unreachable"]
      [] ping = "TimeoutExpired" ->
            [is_online |-> TRUE, response_time |-> NULL,
             error_message |-> "Ping timeout"]
      [] OTHER ->
            [is_online |-> FALSE, response_time |-> NULL,
             error_message |-> "Ping error"]

\* A slip: the elapsed time returned for a ping that failed, too.
check_switch_status_always_timed(ping) ==
    CASE ping = "rc0" ->
            [is_online |-> TRUE, response_time |-> 1, error_message |-> NoMessage]
      [] ping = "rc1" ->
            [is_online |-> FALSE, response_time |-> 1,
             error_message |-> "Ping failed - device unreachable"]
      [] ping = "TimeoutExpired" ->
            [is_online |-> FALSE, response_time |-> NULL,
             error_message |-> "Ping timeout"]
      [] OTHER ->
            [is_online |-> FALSE, response_time |-> NULL,
             error_message |-> "Ping error"]

\* SwitchMonitor.check_switch_status: (is_online, response_time, error_message)
check_switch_status(ping) ==
    CASE ping = "rc0" ->
            [is_online |-> TRUE, response_time |-> 1, error_message |-> NoMessage]
      [] ping = "rc1" ->
            [is_online |-> FALSE, response_time |-> NULL,
             error_message |-> "Ping failed - device unreachable"]
      [] ping = "TimeoutExpired" ->
            [is_online |-> FALSE, response_time |-> NULL,
             error_message |-> "Ping timeout"]
      [] OTHER ->
            [is_online |-> FALSE, response_time |-> NULL,
             error_message |-> "Ping error"]

\* The PowerCheck row record_power_check builds; checked_at defaults to utcnow.
PowerCheckRow(id, switch_id, probe, t) ==
    [id |-> id, switch_id |-> switch_id, is_online |-> probe.is_online,
     response_time |-> probe.response_time,
     error_message |-> probe.error_message, checked_at |-> t]

\* ------------------------------------------------------- outage evaluation
\* A slip: the aggregate re-read from the table, the latest power_check of each
\* switch of the cycle in place of the cycle's own result.
OfflineCountFromTable(check_results) ==
    Cardinality({i \in 1..Len(check_results) :
        \E c \in power_checks :
            /\ c.switch_id = check_results[i].switch
            /\ ~c.is_online
            /\ \A d \in power_checks : d.switch_id = c.switch_id => d.id <= c.id})

\* offline_count = sum(1 for result in check_results if not result["is_online"])
OfflineCount(check_results) == Len(OfflineOf(check_results))

\* A slip: every result counted as online.
OnlineCountAll(results) == Len(results)

\* online_switches = sum(1 for result in results if result["is_online"])
OnlineCount(results) == Len(results) - Len(OfflineOf(results))

\* A slip: a strict majority, so that a tie is no outage.
IsOutageDetectedStrict(offline_count, total_switches) ==
    2 * offline_count > total_switches

\* is_outage_detected = offline_count >= (total_switches / 2)
IsOutageDetected(offline_count, total_switches) ==
    2 * offline_count >= total_switches

\* A slip: the first branch without its "and not ongoing_outage".
TransitionRestart(is_outage_detected, ongoing_outage) ==
    IF is_outage_detected THEN "start"
    ELSE IF ongoing_outage # NULL THEN "end"
    ELSE "none"

\* if is_outage_detected and not ongoing_outage: ...
\* elif not is_outage_detected and ongoing_outage: ...
Transition(is_outage_detected, ongoing_outage) ==
    IF is_outage_detected /\ ongoing_outage = NULL THEN "start"
    ELSE IF ~is_outage_detected /\ ongoing_outage # NULL THEN "end"
    ELSE "none"

\* PowerOutage.query.filter_by(is_ongoing=True): the rows .first() can return.
OngoingOutages(outages) == {o \in outages : o.is_ongoing}

\* A slip: the comprehension without its filter.
AllSwitchIds(check_results) ==
    [i \in 1..Len(check_results) |-> check_results[i].switch]

\* offline_switch_ids = [result["switch"].id for ... if not result["is_online"]]
OfflineSwitchIds(check_results) ==
    [i \in 1..Len(OfflineOf(check_results)) |-> OfflineOf(check_results)[i].switch]

\* PowerOutage(started_at=utcnow(), switches_affected=..., is_ongoing=True)
NewOutage(id, t, offline_switch_ids) ==
    [id |-> id, started_at |-> t, ended_at |-> NULL, duration_seconds |-> NULL,
     switches_affected |-> offline_switch_ids, is_ongoing |-> TRUE]

\* A slip: round() in place of int().
DurationSecondsRounded(started_at, ended_at) ==
    LET n == ended_at - started_at IN
    IF 2 * (n % TicksPerSecond) < TicksPerSecond
    THEN n \div TicksPerSecond
    ELSE (n \div TicksPerSecond) + 1

\* int((ended_at - started_at).total_seconds())
DurationSeconds(started_at, ended_at) == (ended_at - started_at) \div TicksPerSecond

\* A slip: the close that leaves is_ongoing set.
EndOutageStillOngoing(o, t) ==
    [o EXCEPT !.ended_at = t,
              !.duration_seconds = (t - o.started_at) \div TicksPerSecond]

\* A slip: the close that rewrites the affected switches.
EndOutageResetAffected(o, t) ==
    [o EXCEPT !.ended_at = t,
              !.duration_seconds = (t - o.started_at) \div TicksPerSecond,
              !.is_ongoing = FALSE,
              !.switches_affected = <<>>]

\* A slip: a commit after the first of the three assignments.
EndOutageEndedAtOnly(o, t) == [o EXCEPT !.ended_at = t]

\* A slip: the close without its duration_seconds.
EndOutageNoDuration(o, t) == [o EXCEPT !.ended_at = t, !.is_ongoing = FALSE]

\* ended_at = utcnow(); duration_seconds = int(...); is_ongoing = False
EndOutage(o, t) ==
    [o EXCEPT !.ended_at = t,
              !.duration_seconds = DurationSeconds(o.started_at, t),
              !.is_ongoing = FALSE]

\* ------------------------------------------------------------------ uptime
\* timedelta(hours=1), in ticks of the clock.
TicksPerHour == 3600 * TicksPerSecond

\* A float that is the quotient of two integers.
Quotient(n, d) == [num |-> n, den |-> d]

\* if total_checks == 0: return 0.0
\* return (online_checks / total_checks) * 100.0
Percentage(online_checks, total_checks) ==
    IF total_checks = 0 THEN Quotient(0, 1)
    ELSE Quotient(online_checks * 100, total_checks)

\* A slip: the counts without the filter on checked_at.
get_switch_uptime_percentage_all_time(switch_id, hours) ==
    Percentage(
        Cardinality({c \in power_checks : c.switch_id = switch_id /\ c.is_online}),
        Cardinality({c \in power_checks : c.switch_id = switch_id}))

\* SwitchMonitor.get_switch_uptime_percentage: the two counts are taken as
\* counts of one state of the table.
get_switch_uptime_percentage(switch_id, hours) ==
    LET since_time == now - hours * TicksPerHour
        total_checks ==
            Cardinality({c \in power_checks :
                c.switch_id = switch_id /\ c.checked_at >= since_time})
        online_checks ==
            Cardinality({c \in power_checks :
                c.switch_id = switch_id /\ c.checked_at >= since_time /\ c.is_online})
    IN  Percentage(online_checks, total_checks)

\* ------------------------------------------------------------------- state
IdleTask ==
    [pc |-> "idle", retries |-> 0, switches |-> <<>>, results |-> <<>>,
     is_outage_detected |-> FALSE, ongoing_outage |-> NULL]

NoReturn ==
    [kind |-> "none", total_switches |-> 0, online |-> 0, offline |-> 0,
     timestamp |-> NULL]

NoResponse == [kind |-> "none", outages |-> {}, deleted |-> 0]

InitTables ==
    /\ smart_switches = [s \in SwitchIds |-> "active"]
    /\ power_checks = {}
    /\ check_seq = 0
    /\ power_outages = {}
    /\ now = 0
    /\ queue = <<>>
    /\ ondemand = 0
    /\ admin = 0
    /\ task = [w \in Workers |-> IdleTask]
    /\ returned = [w \in Workers |-> NoReturn]
    /\ response = NoResponse

\* A worker pool of NumWorkers processes.
Init ==
    /\ InitTables
    /\ concurrency = NumWorkers
    /\ pings = {"rc0", "rc1"}
    /\ db_faults = FALSE
    /\ outage_threshold = DefaultOutageThreshold

\* celery worker --concurrency=1: one run at a time.
InitSerial ==
    /\ InitTables
    /\ concurrency = 1
    /\ pings = {"rc0", "rc1"}
    /\ db_faults = FALSE
    /\ outage_threshold = DefaultOutageThreshold

\* What db.session.commit() can do: succeed, or (in a run with faults) raise.
CommitOutcomes == IF db_faults THEN BOOLEAN ELSE {TRUE}

\* What SmartSwitch.query...all() can do: return the rows, or (in a run with
\* faults) raise.
QueryOutcomes == IF db_faults THEN BOOLEAN ELSE {TRUE}

\* ----------------------------------------------------------------- actions
Tick ==
    /\ now < MaxTime
    /\ now' = now + 1
    /\ UNCHANGED <<smart_switches, power_checks, check_seq, power_outages, queue,
                   ondemand, admin, concurrency, pings, db_faults, outage_threshold, response, task, returned>>

\* beat_schedule "monitor-switches": every MONITOR_INTERVAL seconds a message.
BeatFire ==
    /\ Len(queue) < MaxQueue
    /\ queue' = Append(queue, 0)
    /\ UNCHANGED <<smart_switches, power_checks, check_seq, power_outages, now,
                   ondemand, admin, concurrency, pings, db_faults, outage_threshold, response, task, returned>>

\* A slip: self.retry without max_retries checked.
RaiseWithoutLimit(w) ==
    /\ task' = [task EXCEPT ![w] = IdleTask]
    /\ queue' = Append(queue, task[w].retries + 1)
    /\ returned' = [returned EXCEPT ![w] = [NoReturn EXCEPT !.kind = "retry"]]

\* except Exception as exc: self.retry(exc=exc, countdown=60, max_retries=3)
Raise(w) ==
    /\ task' = [task EXCEPT ![w] = IdleTask]
    /\ IF task[w].retries < max_retries
       THEN /\ queue' = Append(queue, task[w].retries + 1)
            /\ returned' = [returned EXCEPT ![w] = [NoReturn EXCEPT !.kind = "retry"]]
       ELSE /\ queue' = queue
            /\ returned' = [returned EXCEPT ![w] = [NoReturn EXCEPT !.kind = "failed"]]

\* monitor_all_switches, after check_all_switches returned `results`: the summary.
\* results[0]["power_check"].checked_at reloads the row, which raises when the
\* row is gone (its switch was deleted, with its checks).
Return(w, results, checks) ==
    LET total_switches == Len(results)
        online_switches == OnlineCount(results)
    IN  IF results # <<>> /\ ~\E c \in checks : c.id = results[1].power_check
        THEN Raise(w)
        ELSE /\ task' = [task EXCEPT ![w] = IdleTask]
             /\ queue' = queue
             /\ returned' = [returned EXCEPT ![w] =
                    [kind |-> "summary",
                     total_switches |-> total_switches,
                     online |-> online_switches,
                     offline |-> total_switches - online_switches,
                     timestamp |->
                        IF results # <<>>
                        THEN (CHOOSE c \in checks : c.id = results[1].power_check).checked_at
                        ELSE NULL]]

\* A slip: a failed query taken for an empty list and evaluated as "no switch
\* offline", which ends the ongoing outage before the retry.
StartCycleEvaluatesOnFailure(w) ==
    /\ w <= concurrency
    /\ task[w].pc = "idle"
    /\ queue # <<>>
    /\ \E query_ok \in QueryOutcomes :
          IF query_ok
          THEN /\ check_seq + Len(ActiveSwitches(smart_switches)) <= MaxChecks
               /\ queue' = Tail(queue)
               /\ task' = [task EXCEPT ![w] =
                       [IdleTask EXCEPT !.pc = "probe", !.retries = Head(queue),
                                        !.switches = ActiveSwitches(smart_switches)]]
               /\ returned' = [returned EXCEPT ![w] = NoReturn]
               /\ UNCHANGED power_outages
          ELSE /\ task' = task
               /\ power_outages' =
                     {IF o.is_ongoing THEN EndOutage(o, now) ELSE o : o \in power_outages}
               /\ queue' = Append(Tail(queue), Head(queue) + 1)
               /\ returned' = [returned EXCEPT ![w] =
                                  [NoReturn EXCEPT !.kind = "retry"]]
    /\ UNCHANGED <<smart_switches, power_checks, check_seq, now,
                   ondemand, admin, concurrency, pings, db_faults, outage_threshold, response>>

\* A worker takes a message and runs check_all_switches up to the query of the
\* active switches. When the query raises, monitor_all_switches catches the
\* exception and retries: nothing else of the cycle runs.
StartCycle(w) ==
    /\ w <= concurrency
    /\ task[w].pc = "idle"
    /\ queue # <<>>
    /\ \E query_ok \in QueryOutcomes :
          IF query_ok
          THEN /\ check_seq + Len(ActiveSwitches(smart_switches)) <= MaxChecks
               /\ queue' = Tail(queue)
               /\ task' = [task EXCEPT ![w] =
                       [IdleTask EXCEPT !.pc = "probe", !.retries = Head(queue),
                                        !.switches = ActiveSwitches(smart_switches)]]
               /\ returned' = [returned EXCEPT ![w] = NoReturn]
          ELSE /\ task' = task
               /\ IF Head(queue) < max_retries
                  THEN /\ queue' = Append(Tail(queue), Head(queue) + 1)
                       /\ returned' = [returned EXCEPT ![w] =
                                          [NoReturn EXCEPT !.kind = "retry"]]
                  ELSE /\ queue' = Tail(queue)
                       /\ returned' = [returned EXCEPT ![w] =
                                          [NoReturn EXCEPT !.kind = "failed"]]
    /\ UNCHANGED <<smart_switches, power_checks, check_seq, power_outages, now,
                   ondemand, admin, concurrency, pings, db_faults, outage_threshold, response>>

\* A slip: a switch found offline probed again in the same run, the failed
\* probe recorded but the loop not moving on.
ProbeAndRecordAgainWhenOffline(w) ==
    /\ task[w].pc = "probe"
    /\ Len(task[w].results) < Len(task[w].switches)
    /\ LET switch == task[w].switches[Len(task[w].results) + 1] IN
       \E ping \in pings, commit_ok \in CommitOutcomes :
          LET probe == check_switch_status(ping) IN
          IF commit_ok /\ smart_switches[switch] # "deleted"
          THEN /\ check_seq' = check_seq + 1
               /\ power_checks' = power_checks \cup
                      {PowerCheckRow(check_seq + 1, switch, probe, now)}
               /\ IF probe.is_online \/ check_seq + 1 >= MaxChecks
                  THEN task' = [task EXCEPT ![w].results = Append(@,
                          [switch |-> switch, power_check |-> check_seq + 1,
                           is_online |-> probe.is_online])]
                  ELSE task' = task
               /\ UNCHANGED <<queue, returned>>
          ELSE /\ Raise(w)
               /\ UNCHANGED <<power_checks, check_seq>>
    /\ UNCHANGED <<smart_switches, power_outages, now, ondemand, admin, concurrency, pings, db_faults, outage_threshold, response>>

\* A slip: record_power_check keeping one row per switch, the new result
\* written over the previous one.
ProbeAndRecordLatestOnly(w) ==
    /\ task[w].pc = "probe"
    /\ Len(task[w].results) < Len(task[w].switches)
    /\ LET switch == task[w].switches[Len(task[w].results) + 1] IN
       \E ping \in pings, commit_ok \in CommitOutcomes :
          LET probe == check_switch_status(ping) IN
          IF commit_ok /\ smart_switches[switch] # "deleted"
          THEN /\ check_seq' = check_seq + 1
               /\ power_checks' = {c \in power_checks : c.switch_id # switch} \cup
                      {PowerCheckRow(check_seq + 1, switch, probe, now)}
               /\ task' = [task EXCEPT ![w].results = Append(@,
                      [switch |-> switch, power_check |-> check_seq + 1,
                       is_online |-> probe.is_online])]
               /\ UNCHANGED <<queue, returned>>
          ELSE /\ Raise(w)
               /\ UNCHANGED <<power_checks, check_seq>>
    /\ UNCHANGED <<smart_switches, power_outages, now, ondemand, admin, concurrency, pings, db_faults, outage_threshold, response>>

\* One turn of the loop: check_switch_status, record_power_check, results.append.
\* The INSERT fails when the switch row is gone (foreign key) or the database
\* refuses the commit.
ProbeAndRecord(w) ==
    /\ task[w].pc = "probe"
    /\ Len(task[w].results) < Len(task[w].switches)
    /\ LET switch == task[w].switches[Len(task[w].results) + 1] IN
       \E ping \in pings, commit_ok \in CommitOutcomes :
          LET probe == check_switch_status(ping) IN
          IF commit_ok /\ smart_switches[switch] # "deleted"
          THEN /\ check_seq' = check_seq + 1
               /\ power_checks' = power_checks \cup
                      {PowerCheckRow(check_seq + 1, switch, probe, now)}
               /\ task' = [task EXCEPT ![w].results = Append(@,
                      [switch |-> switch, power_check |-> check_seq + 1,
                       is_online |-> probe.is_online])]
               /\ UNCHANGED <<queue, returned>>
          ELSE /\ Raise(w)
               /\ UNCHANGED <<power_checks, check_seq>>
    /\ UNCHANGED <<smart_switches, power_outages, now, ondemand, admin, concurrency, pings, db_faults, outage_threshold, response>>

\* A slip: the call of _evaluate_power_outages inside the loop, after the
\* first result.
EvalReadInLoop(w) ==
    /\ task[w].pc = "probe"
    /\ \/ Len(task[w].results) >= 1
       \/ task[w].switches = <<>>
    /\ LET check_results == task[w].results
           offline_count == OfflineCount(check_results)
           total_switches == Len(check_results)
       IN  IF total_switches = 0
           THEN Return(w, check_results, power_checks)
           ELSE /\ \E ongoing_outage \in
                        IF OngoingOutages(power_outages) = {} THEN {NULL}
                        ELSE {o.id : o \in OngoingOutages(power_outages)} :
                      task' = [task EXCEPT
                          ![w].pc = "evaluate",
                          ![w].is_outage_detected =
                              IsOutageDetected(offline_count, total_switches),
                          ![w].ongoing_outage = ongoing_outage]
                /\ UNCHANGED <<queue, returned>>
    /\ UNCHANGED <<smart_switches, power_checks, check_seq, power_outages, now,
                   ondemand, admin, concurrency, pings, db_faults, outage_threshold, response>>

\* A slip: _evaluate_power_outages without its "if total_switches == 0: return".
EvalReadOfNothing(w) ==
    /\ task[w].pc = "probe"
    /\ Len(task[w].results) = Len(task[w].switches)
    /\ LET check_results == task[w].results
           offline_count == OfflineCount(check_results)
           total_switches == Len(check_results)
       IN  /\ \E ongoing_outage \in
                   IF OngoingOutages(power_outages) = {} THEN {NULL}
                   ELSE {o.id : o \in OngoingOutages(power_outages)} :
                 task' = [task EXCEPT
                     ![w].pc = "evaluate",
                     ![w].is_outage_detected =
                         IsOutageDetected(offline_count, total_switches),
                     ![w].ongoing_outage = ongoing_outage]
           /\ UNCHANGED <<queue, returned>>
    /\ UNCHANGED <<smart_switches, power_checks, check_seq, power_outages, now,
                   ondemand, admin, concurrency, pings, db_faults, outage_threshold, response>>

\* A slip: the evaluation skipped when no probe of the cycle failed.
EvalReadSkipsWhenAllOnline(w) ==
    /\ task[w].pc = "probe"
    /\ Len(task[w].results) = Len(task[w].switches)
    /\ LET check_results == task[w].results
           offline_count == OfflineCount(check_results)
           total_switches == Len(check_results)
       IN  IF total_switches = 0 \/ offline_count = 0
           THEN Return(w, check_results, power_checks)
           ELSE /\ \E ongoing_outage \in
                        IF OngoingOutages(power_outages) = {} THEN {NULL}
                        ELSE {o.id : o \in OngoingOutages(power_outages)} :
                      task' = [task EXCEPT
                          ![w].pc = "evaluate",
                          ![w].is_outage_detected =
                              IsOutageDetected(offline_count, total_switches),
                          ![w].ongoing_outage = ongoing_outage]
                /\ UNCHANGED <<queue, returned>>
    /\ UNCHANGED <<smart_switches, power_checks, check_seq, power_outages, now,
                   ondemand, admin, concurrency, pings, db_faults, outage_threshold, response>>

\* _evaluate_power_outages up to the query for the ongoing outage.
EvalRead(w) ==
    /\ task[w].pc = "probe"
    /\ Len(task[w].results) = Len(task[w].switches)
    /\ LET check_results == task[w].results
           offline_count == OfflineCount(check_results)
           total_switches == Len(check_results)
       IN  IF total_switches = 0
           THEN Return(w, check_results, power_checks)
           ELSE /\ \E ongoing_outage \in
                        IF OngoingOutages(power_outages) = {} THEN {NULL}
                        ELSE {o.id : o \in OngoingOutages(power_outages)} :
                      task' = [task EXCEPT
                          ![w].pc = "evaluate",
                          ![w].is_outage_detected =
                              IsOutageDetected(offline_count, total_switches),
                          ![w].ongoing_outage = ongoing_outage]
                /\ UNCHANGED <<queue, returned>>
    /\ UNCHANGED <<smart_switches, power_checks, check_seq, power_outages, now,
                   ondemand, admin, concurrency, pings, db_faults, outage_threshold, response>>

\* The rest of _evaluate_power_outages (the branch and its commit), then the
\* return of check_all_switches and the summary of monitor_all_switches.
EvalWrite(w) ==
    /\ task[w].pc = "evaluate"
    /\ LET check_results == task[w].results
           ongoing_outage == task[w].ongoing_outage
       IN
       \E commit_ok \in CommitOutcomes :
          CASE Transition(task[w].is_outage_detected, ongoing_outage) = "start" ->
                 \* result["switch"].id reloads each offline switch: it raises
                 \* when the row was deleted meanwhile.
                 IF commit_ok /\ \A i \in 1..Len(OfflineOf(check_results)) :
                        smart_switches[OfflineOf(check_results)[i].switch] # "deleted"
                 THEN /\ power_outages' = power_outages \cup
                            {NewOutage(Cardinality(power_outages) + 1, now,
                                       OfflineSwitchIds(check_results))}
                      /\ Return(w, check_results, power_checks)
                 ELSE /\ Raise(w)
                      /\ UNCHANGED power_outages
            [] Transition(task[w].is_outage_detected, ongoing_outage) = "end" ->
                 IF commit_ok
                 THEN /\ power_outages' =
                            {IF o.id = ongoing_outage THEN EndOutage(o, now) ELSE o :
                                o \in power_outages}
                      /\ Return(w, check_results, power_checks)
                 ELSE /\ Raise(w)
                      /\ UNCHANGED power_outages
            [] OTHER ->
                 /\ UNCHANGED power_outages
                 /\ Return(w, check_results, power_checks)
    /\ UNCHANGED <<smart_switches, power_checks, check_seq, now, ondemand,
                   admin, concurrency, pings, db_faults, outage_threshold, response>>

\* A slip: an on-demand probe that ends the ongoing outage when the switch
\* answers.
CheckSwitchNowEndsOutage(s) ==
    /\ smart_switches[s] # "deleted"
    /\ ondemand < MaxOnDemand
    /\ check_seq < MaxChecks
    /\ ondemand' = ondemand + 1
    /\ \E ping \in pings :
          /\ check_seq' = check_seq + 1
          /\ power_checks' = power_checks \cup
                 {PowerCheckRow(check_seq + 1, s, check_switch_status(ping), now)}
          /\ power_outages' =
                 IF check_switch_status(ping).is_online
                 THEN {IF o.is_ongoing THEN EndOutage(o, now) ELSE o : o \in power_outages}
                 ELSE power_outages
    /\ UNCHANGED <<smart_switches, now, queue, admin,
                   concurrency, pings, db_faults, outage_threshold, response, task, returned>>

\* check_switch_now / test_switch / check_single_switch: probe one switch and
\* record the result.
CheckSwitchNow(s) ==
    /\ smart_switches[s] # "deleted"
    /\ ondemand < MaxOnDemand
    /\ check_seq < MaxChecks
    /\ ondemand' = ondemand + 1
    /\ \E ping \in pings :
          /\ check_seq' = check_seq + 1
          /\ power_checks' = power_checks \cup
                 {PowerCheckRow(check_seq + 1, s, check_switch_status(ping), now)}
    /\ UNCHANGED <<smart_switches, power_outages, now, queue, admin,
                   concurrency, pings, db_faults, outage_threshold, response, task, returned>>

\* toggle_switch: switch.is_active = not switch.is_active
ToggleSwitch(s) ==
    /\ smart_switches[s] # "deleted"
    /\ admin < MaxAdmin
    /\ admin' = admin + 1
    /\ smart_switches' = [smart_switches EXCEPT ![s] =
            IF @ = "active" THEN "inactive" ELSE "active"]
    /\ UNCHANGED <<power_checks, check_seq, power_outages, now, queue,
                   ondemand, concurrency, pings, db_faults, outage_threshold, response, task, returned>>

\* delete_switch: db.session.delete(switch), cascading to its power_checks.
DeleteSwitch(s) ==
    /\ smart_switches[s] # "deleted"
    /\ admin < MaxAdmin
    /\ admin' = admin + 1
    /\ smart_switches' = [smart_switches EXCEPT ![s] = "deleted"]
    /\ power_checks' = {c \in power_checks : c.switch_id # s}
    /\ UNCHANGED <<check_seq, power_outages, now, queue, ondemand,
                   concurrency, pings, db_faults, outage_threshold, response, task, returned>>

\* timedelta(days=1), in ticks of the clock.
TicksPerDay == 24 * TicksPerHour

\* The --days of cleanup_data: its default, and none.
Days == {0, 7}

\* A slip: the filter with <= in place of <.
OlderThanOrAt(checks, cutoff_date) == {c \in checks : c.checked_at <= cutoff_date}

\* PowerCheck.query.filter(PowerCheck.checked_at < cutoff_date)
OlderThan(checks, cutoff_date) == {c \in checks : c.checked_at < cutoff_date}

\* manage.py cleanup_data --days N: delete the power_checks older than N days.
cleanup_data(days) ==
    LET cutoff_date == now - days * TicksPerDay
        deleted_checks == OlderThan(power_checks, cutoff_date)
    IN  /\ power_checks' = power_checks \ deleted_checks
        /\ response' = [kind |-> "cleanup", outages |-> {},
                        deleted |-> Cardinality(deleted_checks)]
        /\ UNCHANGED <<smart_switches, check_seq, power_outages, now, queue,
                       ondemand, admin, concurrency, pings, db_faults,
                       outage_threshold, task, returned>>

\* The task cleanup_old_power_checks: the same, with 30 days.
cleanup_old_power_checks ==
    LET cutoff_date == now - 30 * TicksPerDay
        deleted_count == OlderThan(power_checks, cutoff_date)
    IN  /\ power_checks' = power_checks \ deleted_count
        /\ response' = [kind |-> "cleanup_task", outages |-> {},
                        deleted |-> Cardinality(deleted_count)]
        /\ UNCHANGED <<smart_switches, check_seq, power_outages, now, queue,
                       ondemand, admin, concurrency, pings, db_faults,
                       outage_threshold, task, returned>>

\* api_status / get_system_status / index: the ongoing outages, read by one
\* SELECT and returned as they were read.
api_status ==
    /\ response' = [kind |-> "status",
                    outages |-> OngoingOutages(power_outages), deleted |-> 0]
    /\ UNCHANGED <<smart_switches, power_checks, check_seq, power_outages, now,
                   queue, ondemand, admin, concurrency, pings, db_faults,
                   outage_threshold, task, returned>>

\* outages / get_power_outages: the history of outages, ongoing or not.
outages_page ==
    /\ response' = [kind |-> "outages", outages |-> power_outages, deleted |-> 0]
    /\ UNCHANGED <<smart_switches, power_checks, check_seq, power_outages, now,
                   queue, ondemand, admin, concurrency, pings, db_faults,
                   outage_threshold, task, returned>>

Next ==
    \/ Tick
    \/ BeatFire
    \/ \E w \in Workers : StartCycle(w)
    \/ \E w \in Workers : ProbeAndRecord(w)
    \/ \E w \in Workers : EvalRead(w)
    \/ \E w \in Workers : EvalWrite(w)
    \/ \E s \in SwitchIds : CheckSwitchNow(s)
    \/ \E s \in SwitchIds : ToggleSwitch(s)
    \/ \E s \in SwitchIds : DeleteSwitch(s)
    \/ api_status
    \/ outages_page
    \/ \E days \in Days : cleanup_data(days)
    \/ cleanup_old_power_checks

\* The monitoring engine with the administration of switches.
NextCycles ==
    \/ Tick
    \/ BeatFire
    \/ \E w \in Workers : StartCycle(w)
    \/ \E w \in Workers : ProbeAndRecord(w)
    \/ \E w \in Workers : EvalRead(w)
    \/ \E w \in Workers : EvalWrite(w)
    \/ \E s \in SwitchIds : ToggleSwitch(s)
    \/ \E s \in SwitchIds : DeleteSwitch(s)

\* A pool of one worker and a database that can refuse a query or a commit.
InitFaults ==
    /\ InitTables
    /\ concurrency = 1
    /\ pings = {"rc0", "rc1"}
    /\ db_faults = TRUE
    /\ outage_threshold = DefaultOutageThreshold

\* A pool of one worker and a network on which a ping can end in each way.
InitProbes ==
    /\ InitTables
    /\ concurrency = 1
    /\ pings = PingOutcomes
    /\ db_faults = FALSE
    /\ outage_threshold = DefaultOutageThreshold

\* Values of POWER_OUTAGE_THRESHOLD that int() accepts.
OutageThresholds == {0, 1, 2}

\* A pool of one worker, POWER_OUTAGE_THRESHOLD set to one value or another.
InitConfig ==
    /\ InitTables
    /\ concurrency = 1
    /\ pings = {"rc0", "rc1"}
    /\ db_faults = FALSE
    /\ outage_threshold \in OutageThresholds

\* A pool of one worker and a registry in which only the first switch is active.
InitRegistry ==
    /\ smart_switches = [s \in SwitchIds |-> IF s = 1 THEN "active" ELSE "inactive"]
    /\ power_checks = {}
    /\ check_seq = 0
    /\ power_outages = {}
    /\ now = 0
    /\ queue = <<>>
    /\ ondemand = 0
    /\ admin = 0
    /\ task = [w \in Workers |-> IdleTask]
    /\ returned = [w \in Workers |-> NoReturn]
    /\ response = NoResponse
    /\ concurrency = 1
    /\ pings = {"rc0", "rc1"}
    /\ db_faults = FALSE
    /\ outage_threshold = DefaultOutageThreshold

\* The monitoring engine alone, the registry left as it is.
NextEngine ==
    \/ Tick
    \/ BeatFire
    \/ \E w \in Workers : StartCycle(w)
    \/ \E w \in Workers : ProbeAndRecord(w)
    \/ \E w \in Workers : EvalRead(w)
    \/ \E w \in Workers : EvalWrite(w)

\* The monitoring engine with switches activated and deactivated.
NextRecovery ==
    \/ Tick
    \/ BeatFire
    \/ \E w \in Workers : StartCycle(w)
    \/ \E w \in Workers : ProbeAndRecord(w)
    \/ \E w \in Workers : EvalRead(w)
    \/ \E w \in Workers : EvalWrite(w)
    \/ \E s \in SwitchIds : ToggleSwitch(s)

\* The monitoring engine and the on-demand probes of the web routes.
NextProbing ==
    \/ Tick
    \/ BeatFire
    \/ \E w \in Workers : StartCycle(w)
    \/ \E w \in Workers : ProbeAndRecord(w)
    \/ \E w \in Workers : EvalRead(w)
    \/ \E w \in Workers : EvalWrite(w)
    \/ \E s \in SwitchIds : CheckSwitchNow(s)

\* The monitoring engine and the pages that show the outages.
NextStatus ==
    \/ Tick
    \/ BeatFire
    \/ \E w \in Workers : StartCycle(w)
    \/ \E w \in Workers : ProbeAndRecord(w)
    \/ \E w \in Workers : EvalRead(w)
    \/ \E w \in Workers : EvalWrite(w)
    \/ api_status
    \/ outages_page

\* Cycles and on-demand probes within one tick of the clock.
NextObservations ==
    \/ BeatFire
    \/ \E w \in Workers : StartCycle(w)
    \/ \E w \in Workers : ProbeAndRecord(w)
    \/ \E w \in Workers : EvalRead(w)
    \/ \E w \in Workers : EvalWrite(w)
    \/ \E s \in SwitchIds : CheckSwitchNow(s)

\* Everything that writes to or deletes from power_checks.
NextStore ==
    \/ Tick
    \/ BeatFire
    \/ \E w \in Workers : StartCycle(w)
    \/ \E w \in Workers : ProbeAndRecord(w)
    \/ \E w \in Workers : EvalRead(w)
    \/ \E w \in Workers : EvalWrite(w)
    \/ \E s \in SwitchIds : DeleteSwitch(s)
    \/ \E days \in Days : cleanup_data(days)
    \/ cleanup_old_power_checks

\* The engine as deployed: beat, broker and a pool of worker processes.
Spec == Init /\ [][NextCycles]_vars

\* The engine on a pool of one worker: runs follow one another.
SpecSerial == InitSerial /\ [][NextCycles]_vars

\* The engine on a pool of one worker, with database faults.
SpecFaults == InitFaults /\ [][NextEngine]_vars

\* The engine on a pool of one worker, with every outcome of a ping.
SpecProbes == InitProbes /\ [][NextEngine]_vars

\* The engine on a pool of one worker, under each configured threshold.
SpecConfig == InitConfig /\ [][NextCycles]_vars

\* The engine on a pool of one worker, with on-demand probes at any moment.
SpecOnDemand == InitSerial /\ [][NextProbing]_vars

\* The engine on a pool of one worker, over a registry with inactive switches.
SpecRegistry == InitRegistry /\ [][NextCycles]_vars

\* The engine on a pool of one worker, with status pages read at any moment.
SpecStatus == InitRegistry /\ [][NextStatus]_vars

\* The engine on a pool of one worker with on-demand probes, every outcome of
\* a ping possible.
SpecObservations == InitProbes /\ [][NextObservations]_vars

\* The engine on a pool of one worker, with deletions of switches and the
\* retention cleanup.
SpecStore == InitRegistry /\ [][NextStore]_vars

\* The engine on a pool of one worker, with switches activated and
\* deactivated between and during the runs. A run that has finished its loop
\* goes on: the worker process executes check_all_switches to its end, so the
\* evaluation that follows the loop, and its commit, are taken.
SpecRecovery ==
    /\ InitSerial
    /\ [][NextRecovery]_vars
    /\ \A w \in Workers : WF_vars(EvalRead(w)) /\ WF_vars(EvalWrite(w))

\* ------------------------------------------------------------- properties
\* What a step does to the outage table and to a worker's run.
Range(seq) == {seq[i] : i \in 1..Len(seq)}

\* The cycle on worker w: its probes, and those that failed.
CycleTotal(w) == Len(task[w].results)

CycleOffline(w) ==
    Cardinality({i \in 1..Len(task[w].results) : ~task[w].results[i].is_online})

\* The step in which worker w's evaluation ends (branch taken, or exception).
EvalStep(w) == task[w].pc = "evaluate" /\ task'[w].pc = "idle"

\* The step in which worker w's cycle completes and returns its summary.
Completes(w) ==
    task[w].pc # "idle" /\ task'[w].pc = "idle" /\ returned'[w].kind = "summary"

\* The outage rows a step creates, and the rows it closes.
Opened == {o \in power_outages' : \A p \in power_outages : p.id # o.id}

Closed ==
    {o \in power_outages :
        o.is_ongoing /\ \E p \in power_outages' : p.id = o.id /\ ~p.is_ongoing}

\* C1. Single-open invariant: at most one power_outages row has is_ongoing.
SingleOpen == Cardinality(OngoingOutages(power_outages)) <= 1

\* C2. Evaluate is atomic with respect to its read of the ongoing outage: a
\* step that inserts an outage finds no outage ongoing at that moment, and a
\* step that ends one finds it still ongoing, as in a serial order of the
\* invocations.
EvaluateAtomic ==
    [][/\ Opened # {} => OngoingOutages(power_outages) = {}
       /\ \A o \in power_outages, p \in power_outages' :
             (p.id = o.id /\ p # o) => o.is_ongoing]_vars

\* C3. Monitoring cycles do not overlap: at most one worker is inside a run of
\* monitor_all_switches.
CyclesDoNotOverlap ==
    \A w1, w2 \in Workers :
        (task[w1].pc # "idle" /\ task[w2].pc # "idle") => w1 = w2

IdempotentNoOp ==
    [][\A w \in Workers :
          (/\ EvalStep(w)
           /\ \/ /\ 2 * CycleOffline(w) >= CycleTotal(w)
                 /\ OngoingOutages(power_outages) # {}
              \/ /\ 2 * CycleOffline(w) < CycleTotal(w)
                 /\ OngoingOutages(power_outages) = {})
          => power_outages' = power_outages]_vars

\* A later cycle found the condition still holding and returned: the outage
\* opened before it is the only row, and as it was.
ReEvaluatedInOutage ==
    \E o \in power_outages :
        /\ power_outages = {o}
        /\ o.is_ongoing
        /\ returned[1].kind = "summary"
        /\ returned[1].total_switches > 0
        /\ 2 * returned[1].offline >= returned[1].total_switches
        /\ returned[1].timestamp > o.started_at

\* C7. Affected-set freeze: no step changes the switches_affected of an
\* existing outage, and no step removes the row.
AffectedSetFrozen ==
    [][\A o \in power_outages :
          \E p \in power_outages' :
             p.id = o.id /\ p.switches_affected = o.switches_affected]_vars

\* A later cycle of the same outage has found a switch outside the affected
\* set offline, a switch of the affected set having been deactivated or deleted.
OfflineAfterOnset ==
    \E o \in power_outages, c \in power_checks :
        /\ o.is_ongoing
        /\ ~c.is_online
        /\ c.switch_id \notin Range(o.switches_affected)
        /\ c.checked_at > o.started_at
        /\ c.id = check_seq
        /\ \E s \in Range(o.switches_affected) : smart_switches[s] # "active"
        /\ task[1].pc = "idle"
        /\ returned[1].kind = "summary"

\* C8. An outage is created ongoing, with no end and no duration, started at
\* the time of the evaluation, and affecting exactly the switches that were
\* unreachable in the cycle that opens it: a non-empty set of probed switches.
OpenedAsOffline ==
    [][\A o \in Opened :
          /\ o.is_ongoing
          /\ o.started_at = now
          /\ o.ended_at = NULL
          /\ o.duration_seconds = NULL
          /\ \E w \in Workers :
                /\ EvalStep(w)
                /\ Range(o.switches_affected) =
                      {task[w].results[i].switch :
                          i \in {j \in 1..Len(task[w].results) :
                                    ~task[w].results[j].is_online}}
                /\ Range(o.switches_affected) \subseteq Range(task[w].switches)
                /\ Range(o.switches_affected) # {}
                /\ Len(o.switches_affected) = Cardinality(Range(o.switches_affected))]_vars

\* Switch 1 answered and switch 2 did not: the outage affects switch 2 alone.
OpenedForSecond ==
    \E o \in power_outages, c \in power_checks :
        /\ o.switches_affected = <<2>>
        /\ c.id = 1 /\ c.switch_id = 1 /\ c.is_online
        /\ c.checked_at <= o.started_at

\* round(), as Python rounds: to the nearest integer, halves to the even one.
Round(n, d) ==
    LET q == n \div d
        r == n % d
    IN  IF 2 * r < d THEN q
        ELSE IF 2 * r > d THEN q + 1
        ELSE IF q % 2 = 0 THEN q ELSE q + 1

\* C9, as stated: a closed outage's duration_seconds is round(t1 - t0).
DurationRounded ==
    \A o \in power_outages :
        ~o.is_ongoing =>
            o.duration_seconds = Round(o.ended_at - o.started_at, TicksPerSecond)

\* C9, amended. A closed outage's duration_seconds is the whole seconds of
\* t1 - t0, the fraction dropped; an ongoing outage has no duration.
DurationTruncated ==
    \A o \in power_outages :
        IF o.is_ongoing
        THEN o.duration_seconds = NULL /\ o.ended_at = NULL
        ELSE /\ o.started_at <= o.ended_at
             /\ o.duration_seconds >= 0
             /\ TicksPerSecond * o.duration_seconds <= o.ended_at - o.started_at
             /\ o.ended_at - o.started_at < TicksPerSecond * (o.duration_seconds + 1)

\* An outage closed a fraction of a second (at least half) after a whole one.
ClosedMidSecond ==
    \E o \in power_outages :
        /\ ~o.is_ongoing
        /\ 2 * ((o.ended_at - o.started_at) % TicksPerSecond) > TicksPerSecond

\* C10. Fan-out: a cycle that completes over the N switches its query
\* returned has recorded N consecutive power_checks, one per switch and in
\* order, each with the result of its probe, and its summary reports
\* total = N, offline = the probes that failed, online = N - offline.
FanOut ==
    [][\A w \in Workers :
          Completes(w) =>
             LET N == Len(task[w].switches)
                 results == task[w].results
                 k == Cardinality({i \in 1..N : ~results[i].is_online})
             IN  /\ Len(results) = N
                 /\ \A i \in 1..N :
                       /\ results[i].switch = task[w].switches[i]
                       /\ results[i].power_check = results[1].power_check + i - 1
                       /\ smart_switches[results[i].switch] # "deleted" =>
                             \E c \in power_checks :
                                /\ c.id = results[i].power_check
                                /\ c.switch_id = results[i].switch
                                /\ c.is_online = results[i].is_online
                 /\ returned'[w].total_switches = N
                 /\ returned'[w].offline = k
                 /\ returned'[w].online = N - k
                 /\ returned'[w].online + returned'[w].offline =
                       returned'[w].total_switches]_vars

\* Two switches probed, one failed: total = 2, offline = 1, online = 1, and the
\* two observations are in the table.
FanOutOneOfTwo ==
    /\ returned[1] = [kind |-> "summary", total_switches |-> 2, online |-> 1,
                      offline |-> 1, timestamp |-> returned[1].timestamp]
    /\ Cardinality(power_checks) = 2
    /\ Cardinality({c \in power_checks : c.is_online}) = 1

PersistenceContained ==
    [][\A w \in Workers :
          (/\ task[w].pc = "probe"
           /\ Len(task[w].results) < Len(task[w].switches)
           /\ task'[w] # task[w])
          => /\ task'[w].pc = "probe"
             /\ Len(task'[w].results) = Len(task[w].results) + 1
             /\ returned'[w].kind \notin {"retry", "failed"}]_vars

\* The reasons check_switch_status gives for a failed probe.
FailureReasons == {"Ping failed - device unreachable", "Ping timeout", "Ping error"}

\* The power_check a result of the cycle refers to.
RowOf(result) == CHOOSE c \in power_checks : c.id = result.power_check

\* C13. Probe failures are contained: a power_check is online with no reason
\* and a response time, or offline with one of the three reasons and no
\* response time; a turn of the loop is followed by the next one whatever the
\* ping did; and a completed cycle reports as offline the probes that have a
\* reason, whichever it is, and has opened an outage iff at least half of its
\* probes have one while no outage is ongoing.
ProbeFailuresContained ==
    /\ [](\A c \in power_checks :
             IF c.is_online
             THEN c.error_message = NoMessage /\ c.response_time # NULL
             ELSE c.error_message \in FailureReasons /\ c.response_time = NULL)
    /\ [][\A w \in Workers :
             /\ (/\ task[w].pc = "probe"
                 /\ Len(task[w].results) < Len(task[w].switches)
                 /\ task'[w] # task[w])
                => /\ task'[w].pc = "probe"
                   /\ Len(task'[w].results) = Len(task[w].results) + 1
             /\ Completes(w) =>
                   LET failed == {i \in 1..Len(task[w].results) :
                                     RowOf(task[w].results[i]).error_message
                                        \in FailureReasons}
                   IN  /\ returned'[w].offline = Cardinality(failed)
                       /\ Opened # {} <=>
                             /\ CycleTotal(w) > 0
                             /\ 2 * Cardinality(failed) >= CycleTotal(w)
                             /\ OngoingOutages(power_outages) = {}
                       /\ \A o \in Opened :
                             Range(o.switches_affected) =
                                {task[w].results[i].switch : i \in failed}]_vars

\* A ping timed out and another could not be run: the cycle returned with both
\* offline and the outage it opened affects both switches.
TimeoutAndErrorOpened ==
    \E o \in power_outages, c1, c2 \in power_checks :
        /\ c1.error_message = "Ping timeout"
        /\ c2.error_message = "Ping error"
        /\ o.is_ongoing
        /\ Range(o.switches_affected) = {c1.switch_id, c2.switch_id}
        /\ returned[1].kind = "summary"
        /\ returned[1].offline = 2

\* C14. A failure to enumerate the switches aborts the whole cycle: the step in
\* which a worker takes a message and ends its run at once (the query raised)
\* writes no power_check, hands out no id, leaves every outage as it is and
\* starts no loop; the message is retried, up to max_retries times.
RegistryFailureAborts ==
    [][\A w \in Workers :
          (/\ task[w].pc = "idle"
           /\ task'[w].pc = "idle"
           /\ returned'[w] # returned[w])
          => /\ power_checks' = power_checks
             /\ check_seq' = check_seq
             /\ power_outages' = power_outages
             /\ task' = task
             /\ returned'[w].kind \in {"retry", "failed"}
             /\ queue # <<>>
             /\ queue' = IF Head(queue) < max_retries
                         THEN Append(Tail(queue), Head(queue) + 1)
                         ELSE Tail(queue)]_vars

\* After a cycle over all the switches has opened an outage, the query of the
\* next run raised: the run was retried, the outage is ongoing as before and
\* no power_check has been added.
QueryFailedInOutage ==
    /\ admin = 0
    /\ returned[1].kind = "retry"
    /\ task[1].pc = "idle"
    /\ check_seq = NumSwitches
    /\ Cardinality(power_checks) = NumSwitches
    /\ \E o \in power_outages : power_outages = {o} /\ o.is_ongoing

\* C15. The configured threshold is honored: with outage_threshold = r, a
\* completed cycle over total > 0 switches has opened an outage iff none was
\* ongoing and offline / total >= r, and has closed the ongoing one iff
\* offline / total < r.
ThresholdHonored ==
    [][\A w \in Workers :
          (Completes(w) /\ CycleTotal(w) > 0) =>
             /\ Opened # {} <=>
                   /\ CycleOffline(w) >= outage_threshold * CycleTotal(w)
                   /\ OngoingOutages(power_outages) = {}
             /\ \A o \in OngoingOutages(power_outages) :
                   o \in Closed <=>
                      CycleOffline(w) < outage_threshold * CycleTotal(w)]_vars

\* The windows asked for: the last 0 hours (this instant) and the last hour.
Hours == {0, 1}

OnDemandOnlyAppends ==
    [][ondemand' # ondemand =>
          /\ power_outages' = power_outages
          /\ task' = task
          /\ returned' = returned
          /\ queue' = queue
          /\ smart_switches' = smart_switches
          /\ \E c \in power_checks' :
                /\ c \notin power_checks
                /\ power_checks' = power_checks \cup {c}
                /\ c.id = check_seq + 1
                /\ c.checked_at = now
                /\ smart_switches[c.switch_id] # "deleted"]_vars

\* While the outage that affects every switch is ongoing, an on-demand probe
\* made after its start has found a switch online: the outage is still ongoing.
OnDemandOnlineInOutage ==
    \E o \in power_outages, c \in power_checks :
        /\ power_outages = {o}
        /\ o.is_ongoing
        /\ Range(o.switches_affected) = SwitchIds
        /\ ondemand = 1
        /\ c.id = check_seq
        /\ c.is_online
        /\ c.checked_at > o.started_at

\* C18. An on-demand probe is safe alongside a cycle: it changes nothing of the
\* running task, and a cycle that completes, whatever on-demand probes were
\* recorded before, between and after its own, reports the aggregate of its own
\* results and has opened (closed) an outage iff its own results say so; the
\* power_checks of the cycle are in the table as probed, and no step removes a
\* power_check.
CycleUnaffectedByOnDemand ==
    [][/\ ondemand' # ondemand => task' = task /\ returned' = returned
       /\ power_checks \subseteq power_checks'
       /\ \A w \in Workers :
             Completes(w) =>
                /\ returned'[w].total_switches = Len(task[w].switches)
                /\ returned'[w].offline = CycleOffline(w)
                /\ \A i \in 1..Len(task[w].results) :
                      \E c \in power_checks' :
                         /\ c.id = task[w].results[i].power_check
                         /\ c.switch_id = task[w].switches[i]
                         /\ c.is_online = task[w].results[i].is_online
                /\ Opened # {} <=>
                      /\ CycleTotal(w) > 0
                      /\ 2 * CycleOffline(w) >= CycleTotal(w)
                      /\ OngoingOutages(power_outages) = {}
                /\ \A o \in OngoingOutages(power_outages) :
                      o \in Closed <=>
                         (CycleTotal(w) > 0 /\ 2 * CycleOffline(w) < CycleTotal(w))]_vars

\* Between the two probes of a cycle that found both switches online, an
\* on-demand probe found a switch offline: the cycle returned 0 offline of 2
\* and opened nothing, and the three power_checks are in the table.
OnDemandAmidCycle ==
    /\ ondemand = 1
    /\ check_seq = NumSwitches + 1
    /\ Cardinality(power_checks) = NumSwitches + 1
    /\ \E c \in power_checks : c.id = 2 /\ ~c.is_online
    /\ \A c \in power_checks : c.id # 2 => c.is_online
    /\ returned[1].kind = "summary"
    /\ returned[1].total_switches = NumSwitches
    /\ returned[1].offline = 0
    /\ power_outages = {}

\* C19. The evaluation runs once per cycle and after the loop: a run enters
\* its evaluation only from the loop, with a result for every switch of its
\* list and every power_check of those already handed its id; it leaves the
\* evaluation only by ending; it writes no power_check from then on; a run
\* that completes has passed through its evaluation; and the outage table
\* changes only in the step that ends an evaluation.
EvaluatedOnceAfterLoop ==
    [][/\ \A w \in Workers :
             /\ (task[w].pc # "evaluate" /\ task'[w].pc = "evaluate") =>
                   /\ task[w].pc = "probe"
                   /\ Len(task[w].results) = Len(task[w].switches)
                   /\ \A i \in 1..Len(task[w].results) :
                         /\ task[w].results[i].power_check <= check_seq
                         /\ smart_switches[task[w].switches[i]] # "deleted" =>
                               \E c \in power_checks :
                                  /\ c.id = task[w].results[i].power_check
                                  /\ c.switch_id = task[w].switches[i]
                   /\ power_outages' = power_outages
             /\ (task[w].pc = "evaluate" /\ task'[w] # task[w]) =>
                   /\ task'[w].pc = "idle"
                   /\ power_checks' = power_checks
             /\ Completes(w) =>
                   \/ task[w].pc = "evaluate"
                   \/ task[w].pc = "probe" /\ task[w].switches = <<>>
       /\ power_outages' # power_outages =>
             \E w \in Workers :
                /\ EvalStep(w)
                /\ Len(task[w].results) = Len(task[w].switches)
       /\ \A c \in power_checks' \ power_checks :
             \E w \in Workers :
                /\ task[w].pc = "probe"
                /\ Len(task[w].results) < Len(task[w].switches)]_vars

\* A cycle over every switch has opened an outage after the last of its
\* power_checks was recorded, the last switch being the one that did not
\* answer.
OpenedAfterLastCheck ==
    \E o \in power_outages, c \in power_checks :
        /\ o.is_ongoing
        /\ o.switches_affected = <<NumSwitches>>
        /\ c.id = check_seq
        /\ c.id = NumSwitches
        /\ c.switch_id = NumSwitches
        /\ ~c.is_online
        /\ c.checked_at < o.started_at
        /\ returned[1].kind = "summary"
        /\ returned[1].total_switches = NumSwitches

\* C20. A cycle with no active switch is a no-op for the outages: it goes from
\* its (empty) loop straight to its return, reports total 0 with no timestamp,
\* writes no power_check and leaves every outage, ongoing or not, as it is.
EmptyCycleNoOp ==
    [][\A w \in Workers :
          /\ (/\ task[w].pc = "probe"
              /\ task[w].switches = <<>>
              /\ task'[w] # task[w]) => Completes(w)
          /\ (Completes(w) /\ CycleTotal(w) = 0) =>
                /\ task[w].switches = <<>>
                /\ power_outages' = power_outages
                /\ power_checks' = power_checks
                /\ returned'[w].total_switches = 0
                /\ returned'[w].offline = 0
                /\ returned'[w].timestamp = NULL]_vars

\* The only active switch went offline, the outage was opened, the switch was
\* deactivated, and a cycle over no switch has returned: the outage is ongoing.
EmptyCycleInOutage ==
    \E o \in power_outages :
        /\ power_outages = {o}
        /\ o.is_ongoing
        /\ o.ended_at = NULL
        /\ \A s \in SwitchIds : smart_switches[s] # "active"
        /\ task[1].pc = "idle"
        /\ returned[1].kind = "summary"
        /\ returned[1].total_switches = 0
        /\ returned[1].timestamp = NULL

\* C21. A status page read at any point of an evaluation shows outages as
\* they were committed: each outage it returns is a row of the table at the
\* time of the read, and is either fully ongoing (no end, no duration) or
\* fully closed (end and duration set); the list of ongoing outages holds
\* ongoing ones only; and the read changes no table and no run.
StatusReadsWholeOutages ==
    /\ [](\A o \in response.outages :
             /\ IF o.is_ongoing
                THEN o.ended_at = NULL /\ o.duration_seconds = NULL
                ELSE o.ended_at # NULL /\ o.duration_seconds # NULL
             /\ response.kind = "status" => o.is_ongoing)
    /\ [][response' # response =>
             /\ response'.outages \subseteq power_outages
             /\ power_outages' = power_outages
             /\ power_checks' = power_checks
             /\ task' = task]_vars

\* The status page was read between the two halves of the evaluation that is
\* about to close the outage: it shows the outage ongoing, whole.
StatusReadAmidClose ==
    \E o \in response.outages :
        /\ response.kind = "status"
        /\ o.is_ongoing
        /\ task[1].pc = "evaluate"
        /\ ~task[1].is_outage_detected
        /\ task[1].ongoing_outage = o.id

\* C22. Outage record well-formedness, in every state: an ongoing outage has
\* no ended_at and no duration_seconds; an outage that is not ongoing has
\* both, with ended_at >= started_at and duration_seconds >= 0, the whole
\* seconds of ended_at - started_at.
OutageWellFormed ==
    \A o \in power_outages :
        /\ o.started_at # NULL
        /\ o.is_ongoing => (o.ended_at = NULL /\ o.duration_seconds = NULL)
        /\ ~o.is_ongoing =>
              /\ o.ended_at # NULL
              /\ o.duration_seconds # NULL
              /\ o.ended_at >= o.started_at
              /\ o.duration_seconds >= 0
              /\ o.duration_seconds = (o.ended_at - o.started_at) \div TicksPerSecond

\* An outage has been closed, some time after its start, and a later one is
\* ongoing: the table holds a record of each kind.
ClosedAndOngoing ==
    \E o, p \in power_outages :
        /\ ~o.is_ongoing
        /\ o.ended_at > o.started_at
        /\ p.is_ongoing
        /\ p.started_at >= o.ended_at

\* C23. Outage lifecycle: no step removes an outage or changes its
\* started_at, and the only change a step makes to an outage is its close, from
\* ongoing to not ongoing; so a record is mutated at most once, and a closed
\* record never changes again.
OutageLifecycle ==
    [][\A o \in power_outages :
          \E p \in power_outages' :
             /\ p.id = o.id
             /\ p.started_at = o.started_at
             /\ p = o \/ (o.is_ongoing /\ ~p.is_ongoing)]_vars

\* C24. Every power_check in the table, written by a cycle or by an on-demand
\* probe, has a response_time iff it is online and an error_message iff it is
\* not.
ObservationWellFormed ==
    \A c \in power_checks :
        /\ c.response_time # NULL <=> c.is_online
        /\ c.error_message # NoMessage <=> ~c.is_online

\* A cycle has found both switches online and an on-demand probe has timed
\* out: the table holds power_checks with a response time and one with a reason.
TimedAndTimedOut ==
    /\ ondemand = 1
    /\ returned[1].kind = "summary"
    /\ returned[1].total_switches = NumSwitches
    /\ returned[1].offline = 0
    /\ Cardinality(power_checks) = NumSwitches + 1
    /\ \E c \in power_checks :
          c.error_message = "Ping timeout" /\ c.response_time = NULL
    /\ \E c \in power_checks :
          c.is_online /\ c.response_time # NULL /\ c.error_message = NoMessage

\* A step of the retention cleanup: the power_checks older than a cutoff of
\* N days are removed, and no other.
PurgeStep ==
    /\ smart_switches' = smart_switches
    /\ \E days \in Days \cup {30} :
          power_checks' =
             {c \in power_checks : c.checked_at >= now - days * TicksPerDay}

\* A step that deletes a switch, and with it the power_checks of that switch.
CascadeStep ==
    \E s \in SwitchIds :
        /\ smart_switches[s] # "deleted"
        /\ smart_switches'[s] = "deleted"
        /\ power_checks' = {c \in power_checks : c.switch_id # s}

\* What is common to C25 as stated and as amended: a step adds at most one
\* power_check, with the next id and stamped now, for the probe a cycle has
\* just made; each probe of a cycle adds one; and no step changes a field of
\* a power_check.
AppendsOnePerProbe ==
    /\ \A c \in power_checks' \ power_checks :
          /\ power_checks' = power_checks \cup {c}
          /\ c.id = check_seq + 1
          /\ check_seq' = check_seq + 1
          /\ c.checked_at = now
          /\ \E w \in Workers :
                task'[w].results = Append(task[w].results,
                    [switch |-> c.switch_id, power_check |-> c.id,
                     is_online |-> c.is_online])
    /\ \A w \in Workers :
          Len(task'[w].results) = Len(task[w].results) + 1 =>
             Cardinality(power_checks' \ power_checks) = 1
    /\ \A c \in power_checks, d \in power_checks' : d.id = c.id => d = c

ProbedOnceInRun ==
    \A w \in Workers :
        /\ power_checks' # power_checks =>
              \E v \in Workers :
                 /\ Len(task[v].results) < Len(task[v].switches)
                 /\ \E c \in power_checks' \ power_checks :
                       /\ power_checks' = power_checks \cup {c}
                       /\ c.switch_id = task[v].switches[Len(task[v].results) + 1]
                       /\ task'[v].results = Append(task[v].results,
                              [switch |-> c.switch_id, power_check |-> c.id,
                               is_online |-> c.is_online])
        /\ (task[w].pc = "idle" /\ task'[w].pc # "idle") =>
              task'[w].switches = ActiveSwitches(smart_switches)
        /\ \A i, j \in 1..Len(task[w].switches) :
              task[w].switches[i] = task[w].switches[j] => i = j
        /\ Completes(w) => Len(task[w].results) = Len(task[w].switches)

\* A run of monitor_all_switches ends in this step by raising.
Aborts(w) ==
    /\ task[w].pc # "idle"
    /\ task'[w].pc = "idle"
    /\ returned'[w].kind \in {"retry", "failed"}

\* C26, as stated: the system performs no retries. No run is a retry, no
\* message in the queue asks for one, and every run probes each active switch
\* once, whatever fails in it.
NoRetries ==
    /\ [](/\ \A i \in 1..Len(queue) : queue[i] = 0
          /\ \A w \in Workers : task[w].retries = 0)
    /\ [][/\ ProbedOnceInRun
          /\ \A w \in Workers :
                (task[w].pc # "idle" /\ task'[w].pc = "idle") =>
                   Len(task[w].results) = Len(task[w].switches)]_vars

\* C26, amended. There is no retry inside a probe or inside a run: a run
\* probes each active switch at most once, and once when it returns its
\* summary. But a run that raises is retried as a whole, up to max_retries
\* times, and the retry probes every active switch again, those the failed
\* run had probed included.
RetriedAsAWhole ==
    /\ [](/\ \A i \in 1..Len(queue) : queue[i] <= max_retries
          /\ \A w \in Workers : task[w].retries <= max_retries)
    /\ [][/\ ProbedOnceInRun
          /\ \A w \in Workers :
                /\ (task[w].pc # "idle" /\ task'[w].pc = "idle") =>
                       Completes(w) \/ Aborts(w)
                /\ Aborts(w) =>
                       queue' = IF task[w].retries < max_retries
                                THEN Append(queue, task[w].retries + 1)
                                ELSE queue
                /\ (task[w].pc = "idle" /\ task'[w].pc # "idle") =>
                       /\ queue # <<>>
                       /\ task'[w].retries = Head(queue)
                       /\ task'[w].results = <<>>]_vars

\* A retry in its loop has probed again the switch that the run before it had
\* probed before it raised: the switch has two power_checks for one message of
\* the schedule.
ProbedAgainByRetry ==
    \E w \in Workers :
        /\ task[w].retries = 1
        /\ Len(task[w].results) = 1
        /\ Cardinality({c \in power_checks :
                           c.switch_id = task[w].results[1].switch}) = 2

\* A step of cleanup_data or of cleanup_old_power_checks: the command or the
\* task has answered, and no cycle and no deletion of a switch has moved.
CleanupStep ==
    /\ response'.kind \in {"cleanup", "cleanup_task"}
    /\ task' = task
    /\ admin' = admin
    /\ response' # response \/ power_checks' # power_checks

\* C27. Retention cleanup deletes only power_checks older than its cutoff and
\* reports their number; it changes no outage, no switch and no power_check
\* at or after the cutoff; and the uptime of every switch over a window that
\* starts at or after the cutoff is the same before and after the cleanup.
CleanupFrame ==
    [][CleanupStep =>
         \E days \in Days \cup {30} :
            LET cutoff_date == now - days * TicksPerDay IN
            /\ response'.kind = "cleanup_task" => days = 30
            /\ power_checks' \subseteq power_checks
            /\ \A c \in power_checks \ power_checks' : c.checked_at < cutoff_date
            /\ \A c \in power_checks : c.checked_at >= cutoff_date => c \in power_checks'
            /\ response'.deleted = Cardinality(power_checks \ power_checks')
            /\ power_outages' = power_outages
            /\ smart_switches' = smart_switches
            /\ check_seq' = check_seq
            /\ \A s \in SwitchIds, hours \in Hours :
                  now - hours * TicksPerHour >= cutoff_date =>
                     get_switch_uptime_percentage(s, hours)' =
                        get_switch_uptime_percentage(s, hours)]_vars

\* cleanup_data --days 0 has deleted a power_check of a switch and kept the
\* one written now: the uptime of the switch over the last 0 hours is that of
\* the power_check that is left.
OldDeletedNewKept ==
    /\ response.kind = "cleanup"
    /\ response.deleted >= 1
    /\ \E c \in power_checks :
          /\ c.checked_at = now
          /\ c.id > 1
          /\ power_checks = {c}
          /\ get_switch_uptime_percentage(c.switch_id, 0) =
                Percentage(IF c.is_online THEN 1 ELSE 0, 1)

\* The loop of the cycle on worker w is done, with at least one probe and
\* fewer than half of the probes failed.
RecoveredCycle(w) ==
    /\ task[w].pc = "probe"
    /\ Len(task[w].results) = Len(task[w].switches)
    /\ CycleTotal(w) > 0
    /\ 2 * CycleOffline(w) < CycleTotal(w)

\* C28. Recovery liveness: when cycles run one after another, a cycle with
\* total > 0 and fewer than half of its probes offline that finds an outage
\* ongoing leads to a state in which the cycle has ended and no outage is
\* ongoing; and every such cycle that completes leaves no outage ongoing, so
\* that none is ongoing for as long as such cycles follow.
RecoveryLiveness ==
    /\ \A w \in Workers :
          (RecoveredCycle(w) /\ OngoingOutages(power_outages) # {})
             ~> (task[w].pc = "idle" /\ OngoingOutages(power_outages) = {})
    /\ [][\A w \in Workers :
             (/\ Completes(w)
              /\ CycleTotal(w) > 0
              /\ 2 * CycleOffline(w) < CycleTotal(w))
             => OngoingOutages(power_outages') = {}]_vars

\* The first cycle with fewer than half of its probes offline after an outage
\* began has returned, and the outage has ended at the time of that cycle.
RecoveredByFirstCycle ==
    /\ returned[1].kind = "summary"
    /\ returned[1].total_switches > 0
    /\ 2 * returned[1].offline < returned[1].total_switches
    /\ task[1].pc = "idle"
    /\ OngoingOutages(power_outages) = {}
    /\ \E o \in power_outages :
          /\ power_outages = {o}
          /\ o.ended_at = returned[1].timestamp
          /\ o.ended_at > o.started_at

====
